---- MODULE Spec2Model ----
(***************************************************************************)
(* Model of the MusicVisualizer class of script.js: the animation loop     *)
(* (play / pause / stop / visualize), the mode selector, the canvas and    *)
(* the particle field that drawParticles moves.                            *)
(*                                                                         *)
(* Numbers.  JavaScript numbers are modelled as exact rationals on a grid: *)
(*   - Math.random() returns k / RandDen for some k in 0 .. RandDen - 1;   *)
(*   - speedX, speedY, radius and hue are stored as numerators over        *)
(*     RandDen;                                                            *)
(*   - a position is stored in units of 1 / PosDen pixel, with             *)
(*     PosDen = bufferLength * 128 * RandDen, so that the displacement     *)
(*     speedX * (sum / bufferLength) / 128 of drawParticles is the integer *)
(*     speedX-numerator * sum.                                             *)
(* Floating point rounding is not modelled.                                *)
(***************************************************************************)
EXTENDS Integers, Sequences, FiniteSets, TLC

VARIABLES
    isPlaying,      \* this.isPlaying
    animationId,    \* this.animationId: 0 models null, else the last handle
    mode,           \* this.mode
    particles,      \* this.particles
    audioContext,   \* this.audioContext # null (and with it this.analyser)
    dataArray,      \* this.dataArray: <<>> models null
    canvas,         \* canvas.width, canvas.height (device pixels)
    pending,        \* host: handles of the frame requests not yet fired or cancelled
    nextId,         \* host: the handle the next requestAnimationFrame returns
    surface,        \* host: "cleared" or "painted" bitmap of the canvas
    lastOp,         \* the handler that ran last
    last,           \* what that handler did
    afterStop       \* stop() has returned and play() was not called since

vars == <<isPlaying, animationId, mode, particles, audioContext, dataArray,
          canvas, pending, nextId, surface, lastOp, last, afterStop>>

----------------------------------------------------------------------------
(* Bounds of the model *)

\* handles requestAnimationFrame may hand out in one behaviour
MaxFrames == 2
\* Math.random() returns a multiple of 1 / RandDen
RandDen == 4

(* Program constants *)

\* analyser.fftSize = 256, frequencyBinCount = fftSize / 2
bufferLength == 128
\* the loop bound of initParticles
NumParticles == 100
\* scale = average / 128
ScaleDen == 128
\* window.devicePixelRatio of the display
devicePixelRatio == 2

\* position units per logical pixel
PosDen == bufferLength * ScaleDen * RandDen

ValidModes == {"bars", "circle", "wave", "particles"}
\* the values a change event may carry: the four options and a foreign one
ModeValues == ValidModes \cup {"spiral"}

Max(a, b) == IF a >= b THEN a ELSE b
Min(a, b) == IF a <= b THEN a ELSE b

----------------------------------------------------------------------------
(* Environment: layout rectangles, random numbers, spectra *)

\* canvas.getBoundingClientRect(): CSS width and height in pixels
Rects == {[width |-> 1, height |-> 2], [width |-> 2, height |-> 1]}

\* the random streams initParticles may draw from
Seeds == {1}

\* the j-th value (numerator over RandDen) of random stream seed: call j is
\* the c-th call (c = j % 6) made for particle n = j \div 6, and the streams
\* run through every combination of x with speedX and of y with speedY
Random(seed, j) ==
    LET n == j \div 6
        c == j % 6
        d0 == n % RandDen
        d1 == (n \div RandDen) % RandDen
        d2 == (n \div (RandDen * RandDen)) % RandDen
    IN  CASE c = 0 -> d0
          [] c = 1 -> (d1 + seed) % RandDen
          [] c = 2 -> d2
          [] c = 3 -> d1
          [] c = 4 -> (d0 + d2 + seed) % RandDen
          [] OTHER -> (d0 + 2 * d1 + seed) % RandDen

\* spectra getByteFrequencyData may write: silence, and a ramp over the bins
Silence == [i \in 1..bufferLength |-> 0]
Ramp == [i \in 1..bufferLength |-> (2 * i) % 256]
Spectra == {Silence, Ramp}

\* s[lo] + ... + s[hi], the value of dataArray.reduce((a, b) => a + b);
\* the one-element set binds mid to its value
RECURSIVE SumRange(_, _, _)
SumRange(s, lo, hi) ==
    IF lo > hi THEN 0
    ELSE IF lo = hi THEN s[lo]
    ELSE CHOOSE v \in {SumRange(s, lo, mid) + SumRange(s, mid + 1, hi) :
                          mid \in {(lo + hi) \div 2}} : TRUE

----------------------------------------------------------------------------
(* The object and the host as one record, so that a method is a function   *)
(* from the state before it to the state after it.  The last four fields   *)
(* record what the running handler did: whether it requested a frame,      *)
(* whether it sampled the spectrum, which draw routine it invoked and      *)
(* whether it ended by an exception.                                       *)

This ==
    [isPlaying |-> isPlaying, animationId |-> animationId, mode |-> mode,
     particles |-> particles, audioContext |-> audioContext,
     dataArray |-> dataArray, canvas |-> canvas, pending |-> pending,
     nextId |-> nextId, surface |-> surface,
     requested |-> FALSE, sampled |-> FALSE, drew |-> "none", err |-> FALSE]

\* canvas.width / (window.devicePixelRatio || 1), in position units
LogicalWidth(s) == (s.canvas.width * PosDen) \div devicePixelRatio
LogicalHeight(s) == (s.canvas.height * PosDen) \div devicePixelRatio

\* initCanvas: the backing store takes the size of the layout rectangle;
\* assigning canvas.width resets the bitmap
InitCanvas(s, rect) ==
    [s EXCEPT !.canvas = [width |-> rect.width * devicePixelRatio,
                          height |-> rect.height * devicePixelRatio],
              !.surface = "cleared"]

\* initParticles: 100 particles, six Math.random() calls each
InitParticles(s, seed) ==
    [s EXCEPT !.particles =
        [i \in 1..NumParticles |->
            LET j == 6 * (i - 1) IN
            [x |-> (Random(seed, j) * LogicalWidth(s)) \div RandDen,
             y |-> (Random(seed, j + 1) * LogicalHeight(s)) \div RandDen,
             radius |-> Random(seed, j + 2) * 3 + RandDen,
             speedX |-> (2 * Random(seed, j + 3) - RandDen),
             speedY |-> (2 * Random(seed, j + 4) - RandDen),
             hue |-> Random(seed, j + 5) * 360]]]

\* initAudioContext: context, analyser and a zeroed Uint8Array, then the
\* particle field
InitAudioContext(s, seed) ==
    InitParticles([s EXCEPT !.audioContext = TRUE,
                            !.dataArray = [i \in 1..bufferLength |-> 0]],
                  seed)

HandleFileSelectAlways(s, file, seed) ==
    IF file THEN InitAudioContext(s, seed) ELSE s

\* handleFileSelect: file tells whether event.target.files[0] exists
HandleFileSelect(s, file, seed) ==
    IF file /\ ~s.audioContext THEN InitAudioContext(s, seed) ELSE s

\* clearCanvas: clearRect over the whole logical surface
ClearCanvas(s) == [s EXCEPT !.surface = "cleared"]

ClampNot(v, limit) == v

\* Math.max(0, Math.min(limit, v))
Clamp(v, limit) == Max(0, Min(limit, v))

MoveParticleClampFirst(p, sum, width, height) ==
    LET x1 == Clamp(p.x + p.speedX * sum, width)
        y1 == Clamp(p.y + p.speedY * sum, height)
    IN  [p EXCEPT !.x = x1, !.y = y1,
                  !.speedX = IF x1 < 0 \/ x1 > width THEN -p.speedX ELSE p.speedX,
                  !.speedY = IF y1 < 0 \/ y1 > height THEN -p.speedY ELSE p.speedY]

MoveParticleDamped(p, sum, width, height) ==
    LET x1 == p.x + p.speedX * sum
        y1 == p.y + p.speedY * sum
    IN  [p EXCEPT !.x = Clamp(x1, width), !.y = Clamp(y1, height),
                  !.speedX = IF x1 < 0 \/ x1 > width
                             THEN (0 - p.speedX) \div 2 ELSE p.speedX,
                  !.speedY = IF y1 < 0 \/ y1 > height
                             THEN (0 - p.speedY) \div 2 ELSE p.speedY]

\* the body of the forEach callback of drawParticles, lines 288-295:
\* displacement, reflection, clamping; sum is the sum of the spectrum
MoveParticle(p, sum, width, height) ==
    LET x1 == p.x + p.speedX * sum
        y1 == p.y + p.speedY * sum
    IN  [p EXCEPT !.x = Clamp(x1, width), !.y = Clamp(y1, height),
                  !.speedX = IF x1 < 0 \/ x1 > width THEN -p.speedX ELSE p.speedX,
                  !.speedY = IF y1 < 0 \/ y1 > height THEN -p.speedY ELSE p.speedY]

\* the particle field after drawParticles over spectrum data; the
\* one-element sets bind the field, the sum (computed once, line 281) and
\* the dimensions (read once, lines 275-276) to their values
MovedField(ps, data, width, height) ==
    CHOOSE f \in {[i \in 1..Len(q) |-> MoveParticle(q[i], sum, w, h)] :
                     q \in {ps}, sum \in {SumRange(data, 1, Len(data))},
                     w \in {width}, h \in {height}} : TRUE

DrawParticles(s) ==
    [s EXCEPT !.surface = "painted", !.drew = "particles",
              !.particles = MovedField(s.particles, s.dataArray,
                                       LogicalWidth(s), LogicalHeight(s))]

\* the other draw routines paint the surface and touch nothing else
DrawBars(s) == [s EXCEPT !.surface = "painted", !.drew = "bars"]
DrawCircle(s) == [s EXCEPT !.surface = "painted", !.drew = "circle"]
DrawWave(s) == [s EXCEPT !.surface = "painted", !.drew = "wave"]

VisualizeBodySampleFirst(s, spectrum) ==
    IF ~s.audioContext THEN [s EXCEPT !.err = TRUE]
    ELSE LET s1 == [s EXCEPT !.animationId = s.nextId,
                             !.pending = s.pending \cup {s.nextId},
                             !.nextId = s.nextId + 1,
                             !.requested = TRUE,
                             !.dataArray = spectrum, !.sampled = TRUE]
         IN  CASE s1.mode = "bars" -> DrawBars(s1)
               [] s1.mode = "circle" -> DrawCircle(s1)
               [] s1.mode = "wave" -> DrawWave(s1)
               [] s1.mode = "particles" -> DrawParticles(s1)
               [] OTHER -> s1

\* visualize past its guard: request the next frame, sample, dispatch.
\* Without an analyser, getByteFrequencyData is a call on null: the frame
\* is already requested when the TypeError is thrown.
VisualizeBody(s, spectrum) ==
    LET s1 == [s EXCEPT !.animationId = s.nextId,
                        !.pending = s.pending \cup {s.nextId},
                        !.nextId = s.nextId + 1,
                        !.requested = TRUE]
    IN  IF ~s.audioContext THEN [s1 EXCEPT !.err = TRUE]
        ELSE LET s2 == [s1 EXCEPT !.dataArray = spectrum, !.sampled = TRUE]
             IN  CASE s2.mode = "bars" -> DrawBars(s2)
                   [] s2.mode = "circle" -> DrawCircle(s2)
                   [] s2.mode = "wave" -> DrawWave(s2)
                   [] s2.mode = "particles" -> DrawParticles(s2)
                   [] OTHER -> s2

VisualizeUnguarded(s, spectrum) == VisualizeBody(s, spectrum)

\* visualize: a call that finds isPlaying false returns at once
Visualize(s, spectrum) ==
    IF ~s.isPlaying THEN s ELSE VisualizeBody(s, spectrum)

PlayEngineNoVisualize(s, spectrum) == [s EXCEPT !.isPlaying = TRUE]

\* play: isPlaying is set and visualize runs synchronously
PlayEngine(s, spectrum) == Visualize([s EXCEPT !.isPlaying = TRUE], spectrum)

\* pause
PauseEngine(s) == [s EXCEPT !.isPlaying = FALSE]

\* cancelAnimationFrame(id): a handle that is not pending is ignored
CancelAnimationFrame(s, id) == [s EXCEPT !.pending = s.pending \ {id}]

StopNoClear(s) ==
    LET s1 == [s EXCEPT !.isPlaying = FALSE]
    IN  IF s1.animationId # 0
        THEN CancelAnimationFrame(s1, s1.animationId) ELSE s1

StopToggle(s) ==
    LET s1 == [s EXCEPT !.isPlaying = ~s.isPlaying]
        s2 == IF s1.animationId # 0
              THEN CancelAnimationFrame(s1, s1.animationId) ELSE s1
    IN  ClearCanvas(s2)

\* stop
StopEngine(s) ==
    LET s1 == [s EXCEPT !.isPlaying = FALSE]
        s2 == IF s1.animationId # 0
              THEN CancelAnimationFrame(s1, s1.animationId) ELSE s1
    IN  ClearCanvas(s2)

SetModeReseed(s, value) ==
    IF value = "particles" /\ s.audioContext
    THEN InitParticles([s EXCEPT !.mode = value], 1)
    ELSE [s EXCEPT !.mode = value]

\* changeMode: the value of the change event is stored as it comes
SetMode(s, value) == [s EXCEPT !.mode = value]

----------------------------------------------------------------------------
(* The state machine: one action per event handler *)

\* the new state: r is the record a method returned (a handler binds it
\* with \E so that it is computed once), stopped is the new value of
\* afterStop; last.again tells a stop() that follows a stop()
Commit(r, stopped) ==
    /\ isPlaying' = r.isPlaying
    /\ animationId' = r.animationId
    /\ mode' = r.mode
    /\ particles' = r.particles
    /\ audioContext' = r.audioContext
    /\ dataArray' = r.dataArray
    /\ canvas' = r.canvas
    /\ pending' = r.pending
    /\ nextId' = r.nextId
    /\ surface' = r.surface
    /\ last' = [requested |-> r.requested, sampled |-> r.sampled,
                drew |-> r.drew, err |-> r.err,
                again |-> (lastOp' = "stop" /\ lastOp = "stop")]
    /\ afterStop' = stopped

Init ==
    /\ isPlaying = FALSE
    /\ animationId = 0
    /\ mode = "bars"
    /\ particles = <<>>
    /\ audioContext = FALSE
    /\ dataArray = <<>>
    /\ \E rect \in Rects :
          canvas = [width |-> rect.width * devicePixelRatio,
                    height |-> rect.height * devicePixelRatio]
    /\ pending = {}
    /\ nextId = 1
    /\ surface = "cleared"
    /\ lastOp = "new"
    /\ last = [requested |-> FALSE, sampled |-> FALSE, drew |-> "none",
               err |-> FALSE, again |-> FALSE]
    /\ afterStop = FALSE

\* 'change' on the file input
FileSelect ==
    /\ lastOp' = "fileSelect"
    /\ \E file \in BOOLEAN, seed \in Seeds :
          \E r \in {HandleFileSelect(This, file, seed)} : Commit(r, afterStop)

\* click on the play button
Play ==
    /\ lastOp' = "play"
    /\ \E spectrum \in Spectra :
          \E r \in {PlayEngine(This, spectrum)} :
              /\ r.nextId <= MaxFrames + 1
              /\ Commit(r, FALSE)

\* click on the pause button
Pause ==
    /\ lastOp' = "pause"
    /\ \E r \in {PauseEngine(This)} : Commit(r, afterStop)

\* click on the stop button, or 'ended' on the audio element
Stop ==
    /\ lastOp' = "stop"
    /\ \E r \in {StopEngine(This)} : Commit(r, TRUE)

\* 'change' on the mode select
ChangeMode ==
    /\ lastOp' = "changeMode"
    /\ \E value \in ModeValues :
          \E r \in {SetMode(This, value)} : Commit(r, afterStop)

\* 'resize' on the window
Resize ==
    /\ lastOp' = "resize"
    /\ \E rect \in Rects :
          \E r \in {InitCanvas(This, rect)} : Commit(r, afterStop)

\* the host fires a pending frame request: the callback runs visualize
Tick ==
    /\ lastOp' = "tick"
    /\ \E id \in pending, spectrum \in Spectra :
          \E r \in {Visualize([This EXCEPT !.pending = pending \ {id}],
                               spectrum)} :
              /\ r.nextId <= MaxFrames + 1
              /\ Commit(r, afterStop)

Next ==
    \/ FileSelect
    \/ Play
    \/ Pause
    \/ Stop
    \/ ChangeMode
    \/ Resize
    \/ Tick

Spec == Init /\ [][Next]_vars

\* the host fires every pending frame request at the next display refresh
FairSpec == Spec /\ WF_vars(Tick)

----------------------------------------------------------------------------
(* drawParticles as a function of one particle field: a field of one       *)
(* particle on a grid that includes the walls and the speeds -1 and +1,    *)
(* one spectrum, one application.                                          *)

\* spectra for the single update: silence, the ramp, full scale
FullScale == [i \in 1..bufferLength |-> 255]
UpdSpectra == {Silence, Ramp, FullScale}

InitUpd ==
    /\ isPlaying = TRUE
    /\ animationId = 1
    /\ mode = "particles"
    /\ audioContext = TRUE
    /\ pending = {1}
    /\ nextId = 2
    /\ surface = "cleared"
    /\ afterStop = FALSE
    /\ lastOp = "sample"
    /\ last = [drew |-> "none", before |-> <<>>]
    /\ dataArray \in UpdSpectra
    /\ \E rect \in Rects :
          /\ canvas = [width |-> rect.width * devicePixelRatio,
                       height |-> rect.height * devicePixelRatio]
          /\ \E x \in {0, (rect.width * PosDen) \div 2, rect.width * PosDen},
                y \in {0, rect.height * PosDen},
                sx \in {-RandDen, -1, 0, RandDen},
                sy \in {-RandDen, 0, 1, RandDen} :
                particles = << [x |-> x, y |-> y, radius |-> RandDen,
                                speedX |-> sx, speedY |-> sy, hue |-> 0] >>

\* the draw routine runs once over the sampled spectrum
UpdateOnce ==
    /\ lastOp = "sample"
    /\ lastOp' = "draw"
    /\ LET r == DrawParticles(This)
       IN  /\ particles' = r.particles
           /\ surface' = r.surface
           /\ last' = [drew |-> r.drew, before |-> particles]
    /\ UNCHANGED <<isPlaying, animationId, mode, audioContext, dataArray,
                   canvas, pending, nextId, afterStop>>

NextUpd == UpdateOnce

SpecUpd == InitUpd /\ [][NextUpd]_vars

----------------------------------------------------------------------------
(* Properties *)

\* C1: a frame callback that starts while isPlaying is false requests no
\* frame, samples no spectrum, invokes no draw routine and changes nothing
\* but the set of pending requests, which loses the request that fired.
TickWhileNotPlayingExits ==
    [][(lastOp' = "tick" /\ ~isPlaying) =>
          /\ ~last'.requested /\ ~last'.sampled /\ last'.drew = "none"
          /\ ~last'.err
          /\ nextId' = nextId
          /\ pending' \subseteq pending /\ pending' # pending
          /\ UNCHANGED <<isPlaying, animationId, mode, particles, audioContext,
                         dataArray, canvas, surface>>]_vars

\* C1 witness: a callback has run while isPlaying was false, after frames
\* were requested, and left without requesting another
TickWhileNotPlayingSeen ==
    /\ lastOp = "tick" /\ ~isPlaying /\ ~last.requested
    /\ nextId > 1

\* C2: at most one frame request is pending at any time
AtMostOneFramePending == Cardinality(pending) <= 1

\* C3: a stop() that follows a stop() raises no error and leaves isPlaying
\* false, the surface cleared and every other field and the pending
\* requests as the first stop() left them; a stop() while not playing and
\* with no request pending cancels nothing and raises no error.
StopIsIdempotent ==
    [][/\ ((lastOp' = "stop" /\ lastOp = "stop") =>
             (/\ ~last'.err
              /\ ~isPlaying' /\ surface' = "cleared"
              /\ UNCHANGED <<isPlaying, animationId, mode, particles,
                             audioContext, dataArray, canvas, pending, nextId,
                             surface>>))
       /\ ((lastOp' = "stop" /\ ~isPlaying /\ pending = {}) =>
             (~last'.err /\ pending' = {} /\ ~isPlaying'))]_vars

\* C3 witness: stop() was called right after stop(), with a frame request
\* of an earlier play() still pending
StopTwiceSeen ==
    lastOp = "stop" /\ last.again /\ pending # {}

\* C4: from the return of stop() until the next play() the surface is
\* cleared, and a frame callback that runs in between draws nothing.
ClearedAfterStop ==
    afterStop =>
        /\ surface = "cleared"
        /\ ~isPlaying
        /\ (lastOp \in {"tick", "stop"} => last.drew = "none")

\* C4 witness: a frame request that was pending when stop() was called has
\* fired after it, and the surface is still cleared
TickAfterStopSeen ==
    afterStop /\ lastOp = "tick" /\ audioContext /\ surface = "cleared"

\* C5: whenever isPlaying is false, eventually no frame request is pending
\* unless play() is called again; and from the moment isPlaying is false
\* until play() is called no handler and no frame callback draws or adds a
\* frame request.
NoDanglingLoop ==
    /\ [](~isPlaying => <>(isPlaying \/ pending = {}))
    /\ [][(~isPlaying /\ lastOp' # "play") =>
             (/\ ~isPlaying'
              /\ last'.drew = "none"
              /\ pending' \subseteq pending)]_vars

\* C5 witness: after pause() or stop() the last pending request has fired
\* and the loop has ended
LoopEndedSeen ==
    /\ ~isPlaying /\ pending = {} /\ nextId > 1
    /\ lastOp = "tick" /\ audioContext

\* C6: the active mode is always one of the four enumerated modes
ModeAlwaysEnumerated == mode \in ValidModes

\* C7: after a run of drawParticles every particle lies in
\* [0, width] x [0, height] for the logical width and height it read.
ParticlesInBounds ==
    last.drew = "particles" =>
        \A i \in 1..Len(particles) :
            /\ 0 <= particles[i].x /\ particles[i].x <= LogicalWidth(This)
            /\ 0 <= particles[i].y /\ particles[i].y <= LogicalHeight(This)

\* C7 witness: a Particles-mode frame callback has left particles on the
\* left wall and on the right wall
ParticlesClampedSeen ==
    /\ lastOp = "tick" /\ last.drew = "particles"
    /\ \E i, j \in 1..Len(particles) :
          /\ particles[i].x = LogicalWidth(This)
          /\ particles[j].x = 0 /\ particles[j].speedX > 0

\* C8: the particle field is created by the file selection that creates
\* the audio context, holds 100 particles from then on, and a later file
\* selection does not touch it.
ParticleFieldCreatedOnce ==
    [][/\ (audioContext' => Len(particles') = NumParticles)
       /\ (~audioContext' => particles' = <<>>)
       /\ ((~audioContext /\ audioContext') => lastOp' = "fileSelect")
       /\ ((audioContext /\ lastOp' = "fileSelect") => particles' = particles)
       /\ (audioContext => audioContext')]_vars

\* C8 witness: a file was selected after a draw routine had run, that is
\* after the field was created
LaterFileSelectSeen ==
    /\ lastOp = "fileSelect" /\ audioContext /\ surface = "painted"
    /\ Len(particles) = NumParticles

\* C9 as stated: changeMode, resize, play(), pause(), stop() and every
\* frame callback in Bars, Radial or Wave mode leave the particle field
\* unchanged, and a resize leaves the mode unchanged
OnlyParticlesTickMovesField ==
    [][/\ ((\/ lastOp' \in {"changeMode", "resize", "play", "pause", "stop"}
            \/ (lastOp' = "tick" /\ last'.drew \in {"bars", "circle", "wave"}))
          => particles' = particles)
       /\ (lastOp' = "resize" => mode' = mode)]_vars

\* C9 amended: the particle field is changed only by a Particles-mode run
\* of visualize, be it a frame callback or the run play() makes itself:
\* changeMode, resize, pause(), stop(), play() in another mode and every
\* frame callback that does not dispatch to drawParticles leave the field
\* unchanged, and a resize leaves the mode unchanged.
OnlyDrawParticlesMovesField ==
    [][/\ ((\/ lastOp' \in {"changeMode", "resize", "pause", "stop"}
            \/ (lastOp' \in {"tick", "play"} /\ last'.drew # "particles"))
          => particles' = particles)
       /\ (lastOp' = "resize" => mode' = mode)]_vars

\* C9 witness: the mode was switched to Particles while playing, after
\* another mode had drawn and with the field in place
SwitchToParticlesSeen ==
    /\ lastOp = "changeMode" /\ mode = "particles"
    /\ isPlaying /\ audioContext /\ surface = "painted"

\* C10 as stated: a particle at x = width with speedX = +1 has speedX = -1
\* and x = width after one update, for any spectrum; the same for y
ReflectsAtWallAnySpectrum ==
    [][\A i \in 1..Len(particles) :
          /\ (particles[i].x = LogicalWidth(This) /\ particles[i].speedX = RandDen)
                => (particles'[i].speedX = -RandDen
                    /\ particles'[i].x = LogicalWidth(This))
          /\ (particles[i].y = LogicalHeight(This) /\ particles[i].speedY = RandDen)
                => (particles'[i].speedY = -RandDen
                    /\ particles'[i].y = LogicalHeight(This))]_vars

\* C10 amended: for a spectrum with at least one non-zero bin, a particle
\* at x = width with speedX = +1 has speedX = -1 and x = width after one
\* update, and the same for y and height; for the all-zero spectrum the
\* particle keeps its position and its speed.
ReflectsAtWallUnlessSilent ==
    [][\A i \in 1..Len(particles) :
          LET sum == SumRange(dataArray, 1, Len(dataArray))
              onX == particles[i].x = LogicalWidth(This)
                     /\ particles[i].speedX = RandDen
              onY == particles[i].y = LogicalHeight(This)
                     /\ particles[i].speedY = RandDen
          IN  /\ (onX /\ sum > 0) =>
                    (particles'[i].speedX = -RandDen
                     /\ particles'[i].x = LogicalWidth(This))
              /\ (onY /\ sum > 0) =>
                    (particles'[i].speedY = -RandDen
                     /\ particles'[i].y = LogicalHeight(This))
              /\ ((onX \/ onY) /\ sum = 0) => particles'[i] = particles[i]]_vars

\* C10 witness: a particle that stood on the right wall with speedX = +1
\* was updated under a spectrum that is not silent and was turned round
ReflectedAtWallSeen ==
    /\ lastOp = "draw" /\ last.drew = "particles"
    /\ dataArray # Silence
    /\ last.before[1].x = LogicalWidth(This)
    /\ last.before[1].speedX = RandDen
    /\ particles[1].x = LogicalWidth(This)
    /\ particles[1].speedX = -RandDen


----------------------------------------------------------------------------
\* C11: an error raised inside a running visualize() does not end the loop:
\* the handler that failed (play() or a tick, isPlaying true) has already
\* requested the next frame, the request is still pending when the handler
\* is left, and the tick that follows while isPlaying holds runs past the
\* guard and requests a frame again.
ErrorKeepsLoop ==
    [][/\ (lastOp' \in {"play", "tick"} /\ last'.err) =>
              /\ isPlaying'
              /\ last'.requested
              /\ animationId' \in pending'
       /\ (last.err /\ isPlaying /\ lastOp' = "tick") => last'.requested]_vars

\* a tick that runs after a failed play() and fails itself, its frame pending
ErrorThenTickSeen ==
    /\ lastOp = "tick"
    /\ last.err
    /\ last.requested
    /\ isPlaying
    /\ animationId \in pending


----------------------------------------------------------------------------
(* One draw in Bars mode: the spectrum and the surface are the inputs *)

\* the largest CSS width and height of the surfaces drawn on
MaxRect == 5
BarRects == [width : 0..MaxRect, height : 0..MaxRect]

RECURSIVE OffsetAfterClamped(_, _, _, _)
OffsetAfterClamped(x, n, step, width) ==
    IF n = 0 THEN x
    ELSE IF n = 1 THEN Min(width, x + step)
    ELSE CHOOSE v \in {OffsetAfterClamped(y, n - n \div 2, step, width) :
                          y \in {OffsetAfterClamped(x, n \div 2, step, width)}} : TRUE

\* the offset x of drawBars after n more passes of its loop, each pass
\* ending with x += step (line 200); n passes are n \div 2 passes followed
\* by the remaining ones, and the one-element set binds the offset in
\* between to its value
RECURSIVE OffsetAfter(_, _, _, _)
OffsetAfter(x, n, step, width) ==
    IF n = 0 THEN x
    ELSE IF n = 1 THEN x + step
    ELSE CHOOSE v \in {OffsetAfter(y, n - n \div 2, step, width) :
                          y \in {OffsetAfter(x, n \div 2, step, width)}} : TRUE

\* the fillRect calls of the loop of drawBars, lines 183-201, in the order
\* they are made: for bin i the bar (line 195) and its cap (line 198), both
\* at the running offset x, which starts at 0 (line 184); x and w are in
\* position units, barWidth = (width / bufferLength) * 2.5
BarFills(s) ==
    LET width == LogicalWidth(s)
        barWidth == ((width \div bufferLength) * 5) \div 2
    IN  [k \in 1..(2 * bufferLength) |->
            [op |-> IF k % 2 = 1 THEN "bar" ELSE "cap",
             bin |-> (k - 1) \div 2,
             x |-> OffsetAfter(0, (k - 1) \div 2, barWidth + PosDen, width),
             w |-> barWidth]]

InitBars ==
    /\ isPlaying = TRUE
    /\ animationId = 1
    /\ mode = "bars"
    /\ particles = <<>>
    /\ audioContext = TRUE
    /\ dataArray \in UpdSpectra
    /\ \E rect \in BarRects :
          canvas = [width |-> rect.width * devicePixelRatio,
                    height |-> rect.height * devicePixelRatio]
    /\ pending = {1}
    /\ nextId = 2
    /\ surface = "cleared"
    /\ lastOp = "sample"
    /\ last = [drew |-> "none", fills |-> <<>>]
    /\ afterStop = FALSE

\* drawBars on the sampled spectrum; last.fills keeps the fillRect calls
BarsOnce ==
    /\ lastOp = "sample"
    /\ lastOp' = "draw"
    /\ \E r \in {DrawBars(This)}, f \in {BarFills(This)} :
          /\ surface' = r.surface
          /\ last' = [drew |-> r.drew, fills |-> f]
    /\ UNCHANGED <<isPlaying, animationId, mode, particles, audioContext,
                   dataArray, canvas, pending, nextId, afterStop>>

NextBars == BarsOnce

SpecBars == InitBars /\ [][NextBars]_vars

\* C12: one draw in Bars mode makes, for a spectrum of N bins, N bar fills
\* and N cap fills in bin order, bar i and cap i at x = i * (barWidth + 1)
\* with barWidth = (width / N) * 2.5, whatever the surface width is: the
\* offsets are not clamped to it.
BarsEmitsNBarsAndCaps ==
    lastOp = "draw" =>
        LET N == Len(dataArray)
            barWidth == (5 * LogicalWidth(This)) \div (2 * N)
        IN  /\ last.drew = "bars"
            /\ Len(last.fills) = 2 * N
            /\ \A i \in 0..(N - 1) :
                  /\ last.fills[2 * i + 1] =
                        [op |-> "bar", bin |-> i,
                         x |-> i * (barWidth + PosDen), w |-> barWidth]
                  /\ last.fills[2 * i + 2] =
                        [op |-> "cap", bin |-> i,
                         x |-> i * (barWidth + PosDen), w |-> barWidth]
            /\ \A i \in 1..(N - 1) :
                  last.fills[2 * i + 1].x =
                      last.fills[2 * i - 1].x + barWidth + PosDen

\* a draw whose last bars lie beyond the right edge of the surface
BarsBeyondWidthSeen ==
    /\ lastOp = "draw"
    /\ last.drew = "bars"
    /\ Len(last.fills) = 2 * bufferLength
    /\ last.fills[2 * bufferLength].x > LogicalWidth(This)
    /\ LogicalWidth(This) > 0


----------------------------------------------------------------------------
(* One draw in Particles mode with its links: the forEach of drawParticles *)
(* moves a particle and then tests it against the particles after it       *)

DataIndexCeil(index, length, bins) == (index * bins + length - 1) \div length

\* Math.floor((index / length) * bins), line 285; index counts from 0
DataIndex(index, length, bins) == (index * bins) \div length

\* the grid the fields below lie on: 1 / RandDen of a pixel, in position
\* units; a spectrum of average 128 or 0 (scale 1 or 0) keeps them on it
LinkUnit == PosDen \div RandDen

\* distance < 100 * intensity, lines 314-318, for particle p, the other
\* particle o and intensity d / 255: with a and b the differences in grid
\* units, sqrt(a^2 + b^2) / RandDen < 100 * d / 255, squared, 255 / 100
\* reduced to 51 / 20
Near(p, o, d) ==
    LET a == (o.x - p.x) \div LinkUnit
        b == (o.y - p.y) \div LinkUnit
    IN  51 * 51 * (a * a + b * b) < (20 * d * RandDen) * (20 * d * RandDen)

\* (particle.hue + Date.now() / 50) % 360, line 298, as a numerator over
\* 50 * RandDen; now is the clock in milliseconds
StrokeHue(p, now) == (50 * p.hue + now * RandDen) % (360 * 50 * RandDen)

LinkTestHueGated(p, o, d, now) ==
    [from |-> <<p.x, p.y>>, to |-> <<o.x, o.y>>,
     hue |-> StrokeHue(p, now),
     link |-> Near(p, o, d) /\ StrokeHue(p, now) < 180 * 50 * RandDen]

\* one pass of the inner loop, lines 313-325: the end points read, the hue
\* of the stroke and whether the stroke is made
LinkTest(p, o, d, now) ==
    [from |-> <<p.x, p.y>>, to |-> <<o.x, o.y>>,
     hue |-> StrokeHue(p, now),
     link |-> Near(p, o, d)]

OthersAll(index, length) ==
    [k \in 1..(length - 1) |-> IF k - 1 < index THEN k - 1 ELSE k]

\* the values j takes in the inner loop of particle index, line 312
Others(index, length) == [k \in 1..(length - 1 - index) |-> index + k]

RECURSIVE ForEachFromLinkFirst(_, _, _, _, _, _, _)
ForEachFromLinkFirst(acc, index, data, sum, width, height, now) ==
    IF index >= Len(acc.field) THEN acc
    ELSE LET d == data[DataIndex(index, Len(acc.field), bufferLength) + 1]
             js == Others(index, Len(acc.field))
             made == [k \in 1..Len(js) |->
                         [i |-> index, j |-> js[k],
                          t |-> LinkTest(acc.field[index + 1],
                                         acc.field[js[k] + 1], d, now)]]
             p == MoveParticle(acc.field[index + 1], sum, width, height)
             field == [acc.field EXCEPT ![index + 1] = p]
         IN  ForEachFromLinkFirst([field |-> field, tests |-> acc.tests \o made],
                                  index + 1, data, sum, width, height, now)

\* the forEach of drawParticles from particle index on, lines 284-327:
\* acc.field is the field as it stands, acc.tests the link tests made so
\* far; the callback reads the particle's bin (285-286), moves the
\* particle in place (288-295) and then tests it against every particle
\* after it (312-326), which it reads from the field as it stands
RECURSIVE ForEachFrom(_, _, _, _, _, _, _)
ForEachFrom(acc, index, data, sum, width, height, now) ==
    IF index >= Len(acc.field) THEN acc
    ELSE LET d == data[DataIndex(index, Len(acc.field), bufferLength) + 1]
             p == MoveParticle(acc.field[index + 1], sum, width, height)
             field == [acc.field EXCEPT ![index + 1] = p]
             js == Others(index, Len(field))
             made == [k \in 1..Len(js) |->
                         [i |-> index, j |-> js[k],
                          t |-> LinkTest(p, field[js[k] + 1], d, now)]]
         IN  ForEachFrom([field |-> field, tests |-> acc.tests \o made],
                         index + 1, data, sum, width, height, now)

\* drawParticles on state s at clock now: the field it leaves and the link
\* tests it makes, in order
ForEachParticle(s, now) ==
    ForEachFrom([field |-> s.particles, tests |-> <<>>], 0, s.dataArray,
                SumRange(s.dataArray, 1, Len(s.dataArray)),
                LogicalWidth(s), LogicalHeight(s), now)

\* the pairs a run of tests drew a link for
LinkedPairs(tests) ==
    {<<tests[k].i, tests[k].j>> : k \in {n \in 1..Len(tests) : tests[n].t.link}}

\* the values Date.now() returns
Clocks == {0, 10000}

\* a spectrum of average 128 (scale 1) whose bins read by a field of three
\* particles hold d[1], d[2], d[3]
LinkSpectrum(d) ==
    [i \in 1..bufferLength |->
        IF \E k \in 1..3 : i = DataIndex(k - 1, 3, bufferLength) + 1
        THEN d[CHOOSE k \in 1..3 : i = DataIndex(k - 1, 3, bufferLength) + 1]
        ELSE IF i = 2 THEN 140 - (d[1] + d[2] + d[3])
        ELSE 131]
LinkSpectra ==
    {Silence} \cup {LinkSpectrum(d) : d \in {<<1, 5, 3>>, <<5, 1, 0>>, <<3, 3, 3>>}}

\* the particles of the fields: on the grid, in a corner of the surface
LinkParticles(width, height) ==
    {[x |-> x, y |-> y, radius |-> RandDen, speedX |-> v[1], speedY |-> v[2],
      hue |-> 0] :
        x \in {0, width}, y \in {0, height},
        v \in {<<RandDen, 0>>, <<-1, 1>>, <<0, 0>>}}

InitLink ==
    /\ isPlaying = TRUE
    /\ animationId = 1
    /\ mode = "particles"
    /\ audioContext = TRUE
    /\ dataArray \in LinkSpectra
    /\ \E rect \in Rects :
          /\ canvas = [width |-> rect.width * devicePixelRatio,
                       height |-> rect.height * devicePixelRatio]
          /\ particles \in [1..3 -> LinkParticles(rect.width * PosDen,
                                                   rect.height * PosDen)]
    /\ pending = {1}
    /\ nextId = 2
    /\ surface = "cleared"
    /\ lastOp = "sample"
    /\ last = [drew |-> "none", before |-> <<>>, now |-> 0, tests |-> <<>>]
    /\ afterStop = FALSE

\* drawParticles on the sampled spectrum at some clock value; last keeps
\* the field at entry, the clock and the link tests made
LinkOnce ==
    /\ lastOp = "sample"
    /\ lastOp' = "draw"
    /\ \E now \in Clocks :
          \E r \in {DrawParticles(This)}, run \in {ForEachParticle(This, now)} :
              /\ particles' = r.particles
              /\ surface' = r.surface
              /\ last' = [drew |-> r.drew, before |-> particles, now |-> now,
                          tests |-> run.tests]
    /\ UNCHANGED <<isPlaying, animationId, mode, audioContext, dataArray,
                   canvas, pending, nextId, afterStop>>

NextLink == LinkOnce

SpecLink == InitLink /\ [][NextLink]_vars

\* the state the draw started from
AtEntry == [This EXCEPT !.particles = last.before]

\* C13: two draws in Particles mode from the same field, spectrum and
\* surface leave the same positions and velocities and link the same pairs,
\* whatever the clock says in either of them.
LinkingIgnoresClock ==
    lastOp = "draw" =>
        \A now \in Clocks :
            LET run == ForEachParticle(AtEntry, now)
            IN  /\ run.field = particles
                /\ LinkedPairs(run.tests) = LinkedPairs(last.tests)

\* a draw that moved a particle and linked a pair, and whose strokes have
\* another colour at another clock value
ClockChangesOnlyColourSeen ==
    /\ lastOp = "draw"
    /\ particles # last.before
    /\ LinkedPairs(last.tests) # {}
    /\ \E now \in Clocks : ForEachParticle(AtEntry, now).tests # last.tests


----------------------------------------------------------------------------
Abs(v) == IF v < 0 THEN 0 - v ELSE v

\* C14: over any sequence of handlers the absolute values of speedX and
\* speedY of every particle are those initParticles gave it, and a handler
\* changes a speed only by drawing in Particles mode and only to its
\* negative, for a particle whose displaced coordinate, before clamping,
\* lies outside the surface.
SpeedOnlyFlips ==
    /\ [](particles # <<>> =>
             \E seed \in Seeds :
                 \E created \in {InitParticles(This, seed).particles} :
                     \A i \in 1..Len(created) :
                         /\ Abs(particles[i].speedX) = Abs(created[i].speedX)
                         /\ Abs(particles[i].speedY) = Abs(created[i].speedY))
    /\ [][(particles # <<>> /\ particles' # particles) =>
             /\ last'.drew = "particles"
             /\ \E sum \in {SumRange(dataArray', 1, Len(dataArray'))} :
                   \A i \in 1..Len(particles) :
                       /\ particles'[i].speedX # particles[i].speedX =>
                             /\ particles'[i].speedX = 0 - particles[i].speedX
                             /\ \/ particles[i].x + particles[i].speedX * sum < 0
                                \/ particles[i].x + particles[i].speedX * sum
                                       > LogicalWidth(This)
                       /\ particles'[i].speedY # particles[i].speedY =>
                             /\ particles'[i].speedY = 0 - particles[i].speedY
                             /\ \/ particles[i].y + particles[i].speedY * sum < 0
                                \/ particles[i].y + particles[i].speedY * sum
                                       > LogicalHeight(This)]_vars

\* a draw after which a particle moves against the direction it was
\* created with
SpeedFlippedSeen ==
    /\ last.drew = "particles"
    /\ \E seed \in Seeds, i \in 1..Len(particles) :
          /\ particles[i].speedX # 0
          /\ particles[i].speedX =
                 0 - InitParticles(This, seed).particles[i].speedX


----------------------------------------------------------------------------
\* the end points of test t are closer than 100 * d / 255 pixels
Within(t, d) ==
    LET a == (t.to[1] - t.from[1]) \div LinkUnit
        b == (t.to[2] - t.from[2]) \div LinkUnit
    IN  255 * 255 * (a * a + b * b) < (100 * d * RandDen) * (100 * d * RandDen)

\* the spectrum value read for particle index of a field of M particles
BinOf(index, M) == dataArray[(index * Len(dataArray)) \div M + 1]

\* C15: one draw in Particles mode tests every pair (i, j) with i < j once
\* and no other pair, and draws the link of a pair exactly when its end
\* points are closer than 100 * intensity of particle i, the intensity
\* being spectrum[floor((i / M) * N)] / 255.
EachPairOnceByLowerIntensity ==
    lastOp = "draw" =>
        LET M == Len(particles)
            tests == last.tests
        IN  /\ Len(tests) = (M * (M - 1)) \div 2
            /\ \A i \in 0..(M - 1), j \in 0..(M - 1) :
                  i < j =>
                      /\ Cardinality({k \in 1..Len(tests) :
                                         tests[k].i = i /\ tests[k].j = j}) = 1
                      /\ \A k \in 1..Len(tests) :
                            (tests[k].i = i /\ tests[k].j = j) =>
                                (tests[k].t.link <=> Within(tests[k].t, BinOf(i, M)))

\* a draw with a pair that is linked although it is too far apart for the
\* intensity of its higher particle, and a pair that is not linked although
\* it is close enough for the intensity of its higher particle
LowerIntensityDecidesSeen ==
    /\ lastOp = "draw"
    /\ \E k \in 1..Len(last.tests) :
          /\ last.tests[k].t.link
          /\ ~Within(last.tests[k].t, BinOf(last.tests[k].j, Len(particles)))
    /\ \E k \in 1..Len(last.tests) :
          /\ ~last.tests[k].t.link
          /\ Within(last.tests[k].t, BinOf(last.tests[k].j, Len(particles)))


----------------------------------------------------------------------------
\* C16: a tick that starts with isPlaying true and one of the four modes
\* invokes the draw routine of the mode held when it dispatches, and no
\* other; a change of mode leaves the loop as it is: what is pending, the
\* handle, isPlaying and the particle field.
TickDrawsCurrentMode ==
    [][/\ (lastOp' = "tick" /\ isPlaying /\ mode \in ValidModes) =>
              last'.drew = mode
       /\ lastOp' = "changeMode" =>
              /\ pending' = pending
              /\ animationId' = animationId
              /\ isPlaying' = isPlaying
              /\ particles' = particles]_vars

----------------------------------------------------------------------------
\* C17: in every state between two handlers in which isPlaying is true a
\* frame request is pending, and a handler that ran visualize() past its
\* guard requested the frame whether or not it went on to sample and draw.
FramePendingWhilePlaying ==
    /\ isPlaying => pending # {}
    /\ (lastOp \in {"play", "tick"} /\ isPlaying) =>
           (last.requested /\ animationId \in pending)

\* a tick of a running loop that sampled and drew, the next frame pending
TickKeepsFramePendingSeen ==
    /\ lastOp = "tick"
    /\ isPlaying
    /\ last.sampled
    /\ last.drew # "none"
    /\ pending # {}


----------------------------------------------------------------------------
(* The bin of a particle: line 285 for any field size and spectrum length *)

\* the largest field and the longest spectrum the index is computed for
MaxField == 7
MaxBins == 9

\* a field of length particles at rest and a spectrum of bins zeros
RestingField(length) ==
    [i \in 1..length |-> [x |-> 0, y |-> 0, radius |-> RandDen,
                           speedX |-> 0, speedY |-> 0, hue |-> 0]]

InitIdx ==
    /\ isPlaying = TRUE
    /\ animationId = 1
    /\ mode = "particles"
    /\ audioContext = TRUE
    /\ \E M \in 1..MaxField, N \in 1..MaxBins :
          /\ particles = RestingField(M)
          /\ dataArray = [i \in 1..N |-> 0]
          /\ \E index \in 0..(M - 1) :
                last = [index |-> index, dataIndex |-> -1]
    /\ \E rect \in Rects :
          canvas = [width |-> rect.width * devicePixelRatio,
                    height |-> rect.height * devicePixelRatio]
    /\ pending = {1}
    /\ nextId = 2
    /\ surface = "cleared"
    /\ lastOp = "callback"
    /\ afterStop = FALSE

\* line 285 in the callback of particle last.index
IndexOnce ==
    /\ lastOp = "callback"
    /\ lastOp' = "indexed"
    /\ last' = [last EXCEPT !.dataIndex =
                    DataIndex(last.index, Len(particles), Len(dataArray))]
    /\ UNCHANGED <<isPlaying, animationId, mode, particles, audioContext,
                   dataArray, canvas, pending, nextId, surface, afterStop>>

NextIdx == IndexOnce

SpecIdx == InitIdx /\ [][NextIdx]_vars

\* C18: for a field of M >= 1 particles, a spectrum of N >= 1 bins and a
\* particle index idx with 0 <= idx < M, dataIndex = floor((idx / M) * N)
\* is a bin of the spectrum, 0 <= dataIndex < N, and the particle before
\* idx reads a bin that is not higher.
DataIndexInRange ==
    lastOp = "indexed" =>
        LET M == Len(particles)
            N == Len(dataArray)
        IN  /\ 0 <= last.dataIndex
            /\ last.dataIndex < N
            /\ last.dataIndex + 1 \in DOMAIN dataArray
            /\ M * last.dataIndex <= last.index * N
            /\ last.index * N < M * (last.dataIndex + 1)
            /\ last.index > 0 =>
                   DataIndex(last.index - 1, M, N) <= last.dataIndex

\* the last particle of a field larger than the spectrum reads the last bin
LastParticleIndexedSeen ==
    /\ lastOp = "indexed"
    /\ last.index = Len(particles) - 1
    /\ Len(particles) > Len(dataArray)
    /\ Len(dataArray) > 1
    /\ last.dataIndex = Len(dataArray) - 1


----------------------------------------------------------------------------
\* C19: in one draw in Particles mode, when the pair (i, j), i < j, is
\* tested, particle i is read at the position this draw moved and clamped
\* it to and particle j at the position it had when the draw began; j is
\* moved later in the same draw.
LinkReadsMovedAndUnmoved ==
    lastOp = "draw" =>
        \E sum \in {SumRange(dataArray, 1, Len(dataArray))} :
            \A k \in 1..Len(last.tests) :
                LET i == last.tests[k].i + 1
                    j == last.tests[k].j + 1
                    t == last.tests[k].t
                IN  /\ i < j
                    /\ t.from = <<particles[i].x, particles[i].y>>
                    /\ particles[i].x =
                          Clamp(last.before[i].x + last.before[i].speedX * sum,
                                LogicalWidth(This))
                    /\ particles[i].y =
                          Clamp(last.before[i].y + last.before[i].speedY * sum,
                                LogicalHeight(This))
                    /\ t.to = <<last.before[j].x, last.before[j].y>>
                    /\ particles[j] =
                          MoveParticle(last.before[j], sum,
                                       LogicalWidth(This), LogicalHeight(This))

\* a test of two particles that both move in the draw, whose verdict is
\* not the one their positions after the draw give, nor the one their
\* positions before the draw give
InterleavingDecidesSeen ==
    /\ lastOp = "draw"
    /\ \E k \in 1..Len(last.tests) :
          LET i == last.tests[k].i + 1
              j == last.tests[k].j + 1
              d == BinOf(i - 1, Len(particles))
          IN  /\ <<particles[i].x, particles[i].y>>
                     # <<last.before[i].x, last.before[i].y>>
              /\ <<particles[j].x, particles[j].y>>
                     # <<last.before[j].x, last.before[j].y>>
              /\ last.tests[k].t.link # Near(particles[i], particles[j], d)
              /\ last.tests[k].t.link # Near(last.before[i], last.before[j], d)

============================================================================
